---------------------------- MODULE Spec2Model ----------------------------
(***************************************************************************)
(* Rasterization of a triangle mesh into a heightfield                     *)
(* (crates/navmesh/src/rasterize.rs).                                      *)
(*                                                                         *)
(* f32 values are modelled as exact rationals <<n, d>> (d > 0, lowest      *)
(* terms); a vertex (Vec3A) is the tuple <<x, y, z>> of three rationals,   *)
(* so that axis 0 (X) is component 1 and axis 2 (Z) is component 3.        *)
(* A polygon buffer together with its vertex counter is a sequence.        *)
(***************************************************************************)
EXTENDS Integers, Sequences, FiniteSets, TLC

VARIABLES
    hf,         \* the Heightfield's fixed fields: aabb, cell_size, cell_height, width, height
    vertices,   \* TrimeshedCollider::vertices
    indices,    \* TrimeshedCollider::indices  (triplets of 0-based vertex indices)
    areaTypes,  \* TrimeshedCollider::area_types
    areaBefore, \* area_types as they were when the call started
    threshold,  \* threshold_cos of mark_walkable_triangles
    pc,         \* position of the running call
    ti,         \* loop index i of populate_from_trimesh / mark_walkable_triangles (0-based)
    z, z1,      \* row loop of rasterize_triangle: current row and last row
    x, x1,      \* column loop: current column and last column
    inTri,      \* in_tri[0..nv_in]: the working polygon of the row sweep
    inRow,      \* in_row[0..nv_row] / in_row[0..nv2]: the working polygon of the column sweep
    plane,      \* axis_offset and axis_dir of the last divide_poly call
    lastDiv,    \* the last divide_poly call: input, both outputs and the (a, b) pairs
    cellPoly,   \* the last cell polygon p1[0..nv] that reached the span extraction
    requests,   \* every SpanInsertion handed to add_span, in order
    cells,      \* the heightfield's per-cell span lists
    failAfter,  \* number of further add_span calls that succeed (-1: all do)
    result      \* what populate_from_trimesh returned

vars == <<hf, vertices, indices, areaTypes, areaBefore, threshold, pc, ti, z, z1, x, x1,
          inTri, inRow, plane, lastDiv, cellPoly, requests, cells, failAfter, result>>

---------------------------------------------------------------------------
(* Exact rational arithmetic standing for f32 arithmetic.                  *)

Abs(n) == IF n < 0 THEN -n ELSE n

RECURSIVE Gcd(_, _)
Gcd(a, b) == IF b = 0 THEN a ELSE Gcd(b, a % b)

Norm(n, d) ==
    LET s == IF d < 0 THEN -1 ELSE 1
        g == Gcd(Abs(n), Abs(d))
    IN  <<(s * n) \div g, (s * d) \div g>>

R(n) == <<n, 1>>
RAdd(p, q) == Norm(p[1] * q[2] + q[1] * p[2], p[2] * q[2])
RSub(p, q) == Norm(p[1] * q[2] - q[1] * p[2], p[2] * q[2])
RMul(p, q) == Norm(p[1] * q[1], p[2] * q[2])
RDiv(p, q) == Norm(p[1] * q[2], p[2] * q[1])
RLt(p, q) == p[1] * q[2] < q[1] * p[2]
RLe(p, q) == p[1] * q[2] <= q[1] * p[2]
RMin(p, q) == IF RLt(q, p) THEN q ELSE p
RMax(p, q) == IF RLt(p, q) THEN q ELSE p
RFloor(p) == p[1] \div p[2]
RCeil(p) == -((-p[1]) \div p[2])
\* `as i32` on an f32: truncation toward zero
RTrunc(p) == IF p[1] >= 0 THEN p[1] \div p[2] ELSE -((-p[1]) \div p[2])

IClamp(v, lo, hi) == IF v < lo THEN lo ELSE IF v > hi THEN hi ELSE v

V(a, b, c) == <<R(a), R(b), R(c)>>
VSub(p, q) == <<RSub(p[1], q[1]), RSub(p[2], q[2]), RSub(p[3], q[3])>>
VLerp(p, q, s) ==
    <<RAdd(p[1], RMul(RSub(q[1], p[1]), s)),
      RAdd(p[2], RMul(RSub(q[2], p[2]), s)),
      RAdd(p[3], RMul(RSub(q[3], p[3]), s))>>

AxisX == 1
AxisZ == 3

---------------------------------------------------------------------------
(* divide_poly                                                             *)

MaxDivideVerts == 12

\* in_vert_axis_delta[i] = axis_offset - in_verts[i][axis_dir]
AxisDelta(inVerts, offset, axis) ==
    [i \in 1..Len(inVerts) |-> RSub(offset, inVerts[i][axis])]

\* the statement reached at the end of one loop body: in_vert_b = in_vert_a.
\* The `continue` of the same-side branch jumps over it.
NextVertB(a, b, continued) == IF continued THEN b ELSE a

\* the intersection point is left out
CrossAppendNoCut(out, ip, v, strictlyInside) ==
    IF strictlyInside THEN Append(out, v) ELSE out

\* What a crossing edge appends to one output: the intersection point, then
\* in_verts[in_vert_a] when it lies strictly on that output's side.
CrossAppend(out, ip, v, strictlyInside) ==
    IF strictlyInside THEN out \o <<ip, v>> ELSE Append(out, ip)

\* One iteration of the edge walk, for in_vert_a = a (1-based here).
\* st = [b, p1, p2, pairs, cross]: in_vert_b, both outputs, and the record
\* of the (in_vert_a, in_vert_b) pairs and of the crossings.
DivideStep(inVerts, delta, st, a) ==
    LET b    == st.b
        da   == delta[a]
        db   == delta[b]
        same == RLe(R(0), da) = RLe(R(0), db)
        s    == RDiv(db, RSub(db, da))
        ip   == VLerp(inVerts[b], inVerts[a], s)
        pairs == Append(st.pairs, <<a, b>>)
    IN  IF ~same
        THEN [b |-> NextVertB(a, b, FALSE),
              p1 |-> CrossAppend(st.p1, ip, inVerts[a], RLt(R(0), da)),
              p2 |-> CrossAppend(st.p2, ip, inVerts[a], RLt(da, R(0))),
              pairs |-> pairs,
              cross |-> Append(st.cross, <<a, b, ip>>)]
        ELSE IF RLe(R(0), da)
             THEN IF da # R(0)
                  THEN [b |-> NextVertB(a, b, TRUE),
                        p1 |-> Append(st.p1, inVerts[a]),
                        p2 |-> st.p2,
                        pairs |-> pairs,
                        cross |-> st.cross]
                  ELSE [b |-> NextVertB(a, b, FALSE),
                        p1 |-> Append(st.p1, inVerts[a]),
                        p2 |-> Append(st.p2, inVerts[a]),
                        pairs |-> pairs,
                        cross |-> st.cross]
             ELSE [b |-> NextVertB(a, b, FALSE),
                   p1 |-> st.p1,
                   p2 |-> Append(st.p2, inVerts[a]),
                   pairs |-> pairs,
                   cross |-> st.cross]

RECURSIVE DivideLoop(_, _, _, _)
DivideLoop(inVerts, delta, st, a) ==
    IF a > Len(inVerts) THEN st
    ELSE DivideLoop(inVerts, delta, DivideStep(inVerts, delta, st, a), a + 1)

\* divide_poly(in_verts, in_vert_count, out_verts_1, .., out_verts_2, .., axis_offset, axis_dir)
\* with output slices of `cap` elements: a write at an index >= cap panics.
DividePoly(inVerts, offset, axis, cap) ==
    IF Len(inVerts) > MaxDivideVerts
    THEN [status |-> "TooManyVertices", nin |-> Len(inVerts),
          out1 |-> <<>>, out2 |-> <<>>, pairs |-> <<>>, cross |-> <<>>]
    ELSE IF Len(inVerts) = 0
    THEN [status |-> "NoVertices", nin |-> 0,
          out1 |-> <<>>, out2 |-> <<>>, pairs |-> <<>>, cross |-> <<>>]
    ELSE
        LET st == DivideLoop(inVerts, AxisDelta(inVerts, offset, axis),
                             [b |-> Len(inVerts), p1 |-> <<>>, p2 |-> <<>>,
                              pairs |-> <<>>, cross |-> <<>>], 1)
        IN  [status |-> IF Len(st.p1) > cap \/ Len(st.p2) > cap THEN "panic" ELSE "Ok",
             nin |-> Len(inVerts),
             out1 |-> st.p1, out2 |-> st.p2, pairs |-> st.pairs, cross |-> st.cross]

NoDiv == [status |-> "none", nin |-> 0, out1 |-> <<>>, out2 |-> <<>>,
          pairs |-> <<>>, cross |-> <<>>]

---------------------------------------------------------------------------
(* Heightfield, spans and the external add_span                            *)

\* Span::MAX_HEIGHT
MAX_HEIGHT == 8191
\* u16::MAX, the saturation bound of `as u16`
U16_MAX == 65535
\* const MAX_VERTICES_AFTER_CLIPPING
\* a scratch buffer three slots shorter
ScratchShortByThree == 7 - 3
MAX_VERTICES_AFTER_CLIPPING == 7

WALKABLE == "walkable"
NOT_WALKABLE == "none"

Heightfield(minv, maxv, cs, ch, w, h) ==
    [min |-> minv, max |-> maxv, cs |-> cs, ch |-> ch, w |-> w, h |-> h]

Cells(f) == (0..(f.w - 1)) \X (0..(f.h - 1))
EmptyCells(f) == [c \in Cells(f) |-> <<>>]

\* Heightfield::add_span on success: the span joins the cell's list.
AddSpan(cs, ins) ==
    [cs EXCEPT ![<<ins.x, ins.z>>] = Append(@, [min |-> ins.min, max |-> ins.max, area |-> ins.area])]

---------------------------------------------------------------------------
(* Geometric primitives                                                    *)

\* TriangleVertices::aabb
TriAabb(t) ==
    [min |-> [k \in 1..3 |-> RMin(RMin(t[1][k], t[2][k]), t[3][k])],
     max |-> [k \in 1..3 |-> RMax(RMax(t[1][k], t[2][k]), t[3][k])]]

\* Aabb3d::intersects as used by the broad reject: closed intervals on all three axes
IntersectsNoReject(a, b) == TRUE
Intersects(a, b) ==
    \A k \in 1..3 : RLe(a.min[k], b.max[k]) /\ RLe(b.min[k], a.max[k])

TriangleOf(i) ==
    <<vertices[indices[i + 1][1] + 1],
      vertices[indices[i + 1][2] + 1],
      vertices[indices[i + 1][3] + 1]>>

\* cell index of a world coordinate: ((c - origin) * inverse_cell_size) as i32
CellIndex(c, origin, cs) == RTrunc(RMul(RSub(c, origin), RDiv(R(1), cs)))

---------------------------------------------------------------------------
(* rasterize_triangle: row sweep, column sweep, span extraction            *)

RECURSIVE FoldX(_, _, _, _)
\* the loop `for i in 1..nv_row` over in_row[i].x, with acc starting at in_row[0].x
FoldX(poly, i, acc, takeMax) ==
    IF i > Len(poly) THEN acc
    ELSE FoldX(poly, i + 1,
               IF takeMax THEN RMax(acc, poly[i][1]) ELSE RMin(acc, poly[i][1]),
               takeMax)

\* min_x as the code computes it: min_x = min_x.max(in_row[i].x)
RowMinX(poly) == FoldX(poly, 2, poly[1][1], TRUE)
\* max_x as the code computes it: max_x = max_x.min(in_row[i].x)
RowMaxX(poly) == FoldX(poly, 2, poly[1][1], FALSE)

RECURSIVE FoldY(_, _, _, _)
FoldY(poly, i, acc, takeMax) ==
    IF i > Len(poly) THEN acc
    ELSE FoldY(poly, i + 1,
               IF takeMax THEN RMax(acc, poly[i][2]) ELSE RMin(acc, poly[i][2]),
               takeMax)

\* span_min / span_max before the offset: both start at p1[1].y and the loop
\* runs over i in 1..nv (0-based), i.e. components 2..nv here.
SpanMinY(poly) == FoldY(poly, 2, poly[2][2], FALSE)
SpanMaxY(poly) == FoldY(poly, 2, poly[2][2], TRUE)

\* `(v as u16)` of a floored / ceiled f32: saturating
AsU16(n) == IClamp(n, 0, U16_MAX)

\* The span extraction of one cell polygon.
\* kind "skip": the `continue` of the vertical reject; "panic": Ord::clamp with
\* min > max aborts; "span": the SpanInsertion's interval.
SpanOf(poly, f) ==
    LET by    == RSub(f.max[2], f.min[2])
        smin0 == RSub(SpanMinY(poly), f.min[2])
        smax0 == RSub(SpanMaxY(poly), f.min[2])
        smin  == RMax(smin0, R(0))
        smax  == RMin(smax0, by)
        inv   == RDiv(R(1), f.ch)
        lo    == IClamp(AsU16(RFloor(RMul(smin, inv))), 0, MAX_HEIGHT)
        hiRaw == AsU16(RCeil(RMul(smax, inv)))
    IN  IF RLt(smax0, R(0)) \/ RLt(by, smin0)
        THEN [kind |-> "skip", min |-> 0, max |-> 0]
        ELSE IF lo + 1 > MAX_HEIGHT
        THEN [kind |-> "panic", min |-> lo, max |-> 0]
        ELSE [kind |-> "span", min |-> lo, max |-> IClamp(hiRaw, lo + 1, MAX_HEIGHT)]

---------------------------------------------------------------------------
(* populate_from_trimesh and rasterize_triangle as a state machine         *)

RasterFrame == <<hf, vertices, indices, areaTypes, areaBefore, threshold>>

\* the error is dropped and the loop goes on with the next triangle
SwallowError(err) ==
    /\ pc' = "populate"
    /\ result' = result
    /\ ti' = ti + 1

\* `?` on an Err of rasterize_triangle: populate_from_trimesh returns it at once.
Propagate(err) ==
    /\ pc' = "done"
    /\ result' = err
    /\ ti' = ti

\* Top of the loop of populate_from_trimesh with a triangle left: the call of
\* rasterize_triangle up to the first row (broad reject, z0, z1).
PopulateNext ==
    /\ pc = "populate"
    /\ ti < Len(indices)
    /\ LET t    == TriangleOf(ti)
           aabb == TriAabb(t)
           z0r  == CellIndex(aabb.min[3], hf.min[3], hf.cs)
           z1r  == CellIndex(aabb.max[3], hf.min[3], hf.cs)
       IN  IF ~Intersects([min |-> hf.min, max |-> hf.max], aabb)
           THEN /\ ti' = ti + 1
                /\ UNCHANGED <<pc, z, z1, inTri>>
           ELSE /\ pc' = "row"
                /\ z' = IClamp(z0r, -1, hf.h - 1)
                /\ z1' = IClamp(z1r, 0, hf.h - 1)
                /\ inTri' = t
                /\ ti' = ti
    /\ UNCHANGED <<RasterFrame, x, x1, inRow, plane, lastDiv, cellPoly,
                   requests, cells, failAfter, result>>

\* The loop of populate_from_trimesh is exhausted: Ok(()).
PopulateReturn ==
    /\ pc = "populate"
    /\ ti = Len(indices)
    /\ pc' = "done"
    /\ result' = "Ok"
    /\ UNCHANGED <<RasterFrame, ti, z, z1, x, x1, inTri, inRow, plane, lastDiv,
                   cellPoly, requests, cells, failAfter>>

\* One iteration of `for z in z0..=z1` up to the column loop, or the Ok(()) that
\* follows the last row.
RowStep ==
    /\ pc = "row"
    /\ IF z > z1
       THEN /\ pc' = "populate"
            /\ ti' = ti + 1
            /\ UNCHANGED <<z, x, x1, inTri, inRow, plane, lastDiv, result>>
       ELSE /\ plane' = [offset |-> RAdd(RAdd(hf.min[3], RMul(R(z), hf.cs)), hf.cs),
                         axis |-> AxisZ]
            /\ lastDiv' = DividePoly(inTri, plane'.offset, AxisZ,
                                     MAX_VERTICES_AFTER_CLIPPING)
            /\ IF lastDiv'.status = "panic"
               THEN /\ pc' = "panic"
                    /\ UNCHANGED <<ti, z, x, x1, inTri, inRow, result>>
               ELSE IF lastDiv'.status # "Ok"
               THEN /\ Propagate(lastDiv'.status)
                    /\ UNCHANGED <<z, x, x1, inTri, inRow>>
               ELSE /\ inRow' = lastDiv'.out1
                    /\ inTri' = lastDiv'.out2
                    /\ UNCHANGED <<ti, result>>
                    /\ IF Len(inRow') < 3 \/ z < 0
                       THEN /\ z' = z + 1
                            /\ UNCHANGED <<pc, x, x1>>
                       ELSE LET x0r == CellIndex(RowMinX(inRow'), hf.min[1], hf.cs)
                                x1r == CellIndex(RowMaxX(inRow'), hf.min[1], hf.cs)
                            IN  IF x1r < 0 \/ x0r >= hf.w
                                THEN /\ z' = z + 1
                                     /\ UNCHANGED <<pc, x, x1>>
                                ELSE /\ pc' = "col"
                                     /\ x' = IClamp(x0r, -1, hf.w - 1)
                                     /\ x1' = IClamp(x1r, 0, hf.w - 1)
                                     /\ z' = z
    /\ UNCHANGED <<RasterFrame, z1, cellPoly, requests, cells, failAfter>>

\* One iteration of `for x in x0..=x1`, or the end of the column loop.
ColStep ==
    /\ pc = "col"
    /\ IF x > x1
       THEN /\ pc' = "row"
            /\ z' = z + 1
            /\ UNCHANGED <<ti, x, inRow, plane, lastDiv, cellPoly, requests,
                           cells, failAfter, result>>
       ELSE /\ plane' = [offset |-> RAdd(RAdd(hf.min[1], RMul(R(x), hf.cs)), hf.cs),
                         axis |-> AxisX]
            /\ lastDiv' = DividePoly(inRow, plane'.offset, AxisX,
                                     MAX_VERTICES_AFTER_CLIPPING)
            /\ z' = z
            /\ IF lastDiv'.status = "panic"
               THEN /\ pc' = "panic"
                    /\ UNCHANGED <<ti, x, inRow, cellPoly, requests, cells,
                                   failAfter, result>>
               ELSE IF lastDiv'.status # "Ok"
               THEN /\ Propagate(lastDiv'.status)
                    /\ UNCHANGED <<x, inRow, cellPoly, requests, cells, failAfter>>
               ELSE /\ inRow' = lastDiv'.out2
                    /\ IF Len(lastDiv'.out1) < 3 \/ x < 0
                       THEN /\ x' = x + 1
                            /\ UNCHANGED <<pc, ti, cellPoly, requests, cells,
                                           failAfter, result>>
                       ELSE /\ cellPoly' = [x |-> x, z |-> z, poly |-> lastDiv'.out1,
                                            span |-> SpanOf(lastDiv'.out1, hf)]
                            /\ IF cellPoly'.span.kind = "skip"
                               THEN /\ x' = x + 1
                                    /\ UNCHANGED <<pc, ti, requests, cells,
                                                   failAfter, result>>
                               ELSE IF cellPoly'.span.kind = "panic"
                               THEN /\ pc' = "panic"
                                    /\ UNCHANGED <<ti, x, requests, cells,
                                                   failAfter, result>>
                               ELSE /\ requests' = Append(requests,
                                          [x |-> x, z |-> z,
                                           min |-> cellPoly'.span.min,
                                           max |-> cellPoly'.span.max,
                                           area |-> areaTypes[ti + 1], tri |-> ti])
                                    /\ IF failAfter = 0
                                       THEN /\ Propagate("SpanInsertionError")
                                            /\ UNCHANGED <<x, cells, failAfter>>
                                       ELSE /\ cells' = AddSpan(cells,
                                                   requests'[Len(requests')])
                                            /\ failAfter' = IF failAfter > 0
                                                            THEN failAfter - 1
                                                            ELSE failAfter
                                            /\ x' = x + 1
                                            /\ UNCHANGED <<pc, ti, result>>
    /\ UNCHANGED <<RasterFrame, z1, x1, inTri>>

NextRaster == PopulateNext \/ PopulateReturn \/ RowStep \/ ColStep

NoCellPoly == [x |-> 0, z |-> 0, poly |-> <<>>,
               span |-> [kind |-> "skip", min |-> 0, max |-> 0]]

\* The state before a call of populate_from_trimesh on heightfield f.
InitCall(f, vs, is, as, fa) ==
    /\ hf = f
    /\ vertices = vs
    /\ indices = is
    /\ areaTypes = as
    /\ areaBefore = as
    /\ threshold = R(0)
    /\ pc = "populate"
    /\ ti = 0
    /\ z = 0 /\ z1 = 0 /\ x = 0 /\ x1 = 0
    /\ inTri = <<>> /\ inRow = <<>>
    /\ plane = [offset |-> R(0), axis |-> AxisZ]
    /\ lastDiv = NoDiv
    /\ cellPoly = NoCellPoly
    /\ requests = <<>>
    /\ cells = EmptyCells(f)
    /\ failAfter = fa
    /\ result = "none"

---------------------------------------------------------------------------
(* Sweep scenarios: one flat triangle on integer coordinates               *)

MaxCoord == 3
Coords == (-1)..MaxCoord

\* cell size 1, cell height 1, X/Z bounds [0,2]x[0,2], vertical bound [0,1]
UnitField == Heightfield(V(0, 0, 0), V(2, 1, 2), R(1), R(1), 2, 2)
\* cell size 2, X/Z bounds [0,4]x[0,4]: odd coordinates are interior to a cell
WideField == Heightfield(V(0, 0, 0), V(4, 1, 4), R(2), R(1), 2, 2)

SweepFields == {UnitField, WideField}

InitSweep ==
    \E f \in SweepFields :
    \E ax \in Coords, az \in Coords, bx \in Coords, bz \in Coords,
       cx \in Coords, cz \in Coords :
        InitCall(f, <<V(ax, 0, az), V(bx, 0, bz), V(cx, 0, cz)>>,
                 <<<<0, 1, 2>>>>, <<NOT_WALKABLE>>, -1)

Spec == InitSweep /\ [][NextRaster]_vars

---------------------------------------------------------------------------
(* Reference geometry used to state the sweep claims (not program code)    *)

RefInside(v, axis, bound, keepLow) ==
    IF keepLow THEN RLe(v[axis], bound) ELSE RLe(bound, v[axis])

RefCut(p, q, axis, bound) ==
    VLerp(p, q, RDiv(RSub(bound, p[axis]), RSub(q[axis], p[axis])))

RECURSIVE RefClipLoop(_, _, _, _, _, _)
RefClipLoop(poly, axis, bound, keepLow, i, acc) ==
    IF i > Len(poly) THEN acc
    ELSE LET prev == poly[IF i = 1 THEN Len(poly) ELSE i - 1]
             cur  == poly[i]
             inC  == RefInside(cur, axis, bound, keepLow)
             inP  == RefInside(prev, axis, bound, keepLow)
         IN  RefClipLoop(poly, axis, bound, keepLow, i + 1,
                 IF inC
                 THEN IF inP THEN Append(acc, cur)
                             ELSE acc \o <<RefCut(prev, cur, axis, bound), cur>>
                 ELSE IF inP THEN Append(acc, RefCut(prev, cur, axis, bound))
                             ELSE acc)

\* Sutherland-Hodgman clip of a polygon against one axis-aligned half-plane
RefClip(poly, axis, bound, keepLow) ==
    IF poly = <<>> THEN <<>> ELSE RefClipLoop(poly, axis, bound, keepLow, 1, <<>>)

RECURSIVE RefArea2Loop(_, _, _)
RefArea2Loop(poly, i, acc) ==
    IF i > Len(poly) THEN acc
    ELSE LET p == poly[i]
             q == poly[IF i = Len(poly) THEN 1 ELSE i + 1]
         IN  RefArea2Loop(poly, i + 1,
                 RAdd(acc, RSub(RMul(p[1], q[3]), RMul(q[1], p[3]))))

\* twice the signed area of the polygon's (x, z) footprint
RefArea2(poly) == IF poly = <<>> THEN R(0) ELSE RefArea2Loop(poly, 1, R(0))

\* the footprint of cell c overlaps the triangle with positive area
RefOverlaps(t, f, c) ==
    LET lowX == RAdd(f.min[1], RMul(R(c[1]), f.cs))
        lowZ == RAdd(f.min[3], RMul(R(c[2]), f.cs))
        clipped == RefClip(RefClip(RefClip(RefClip(t, AxisX, lowX, FALSE),
                                           AxisX, RAdd(lowX, f.cs), TRUE),
                                   AxisZ, lowZ, FALSE),
                           AxisZ, RAdd(lowZ, f.cs), TRUE)
    IN  RefArea2(clipped) # R(0)

RefOverlapCells(t, f) == {c \in Cells(f) : RefOverlaps(t, f, c)}

RequestCells == {<<requests[i].x, requests[i].z>> : i \in 1..Len(requests)}

\* the true X extent of a polygon
RefMinX(poly) == FoldX(poly, 2, poly[1][1], FALSE)
RefMaxX(poly) == FoldX(poly, 2, poly[1][1], TRUE)

---------------------------------------------------------------------------
(* Claims about the sweep                                                  *)

UnitTriangle == <<V(0, 0, 0), V(1, 0, 0), V(0, 0, 1)>>

---------------------------------------------------------------------------
(* Height scenarios: one non-degenerate triangle inside a single cell       *)
(* footprint, with every combination of vertex heights                      *)

MaxY == 6
\* cell size 3, cell height 2, X/Z bounds [0,6]x[0,6], vertical bound [1,5]
LowField == Heightfield(V(0, 1, 0), V(6, 5, 6), R(3), R(2), 2, 2)
\* cell height 1 and a vertical bound [0, MAX_HEIGHT + 1]
TallField == Heightfield(V(0, 0, 0), V(6, MAX_HEIGHT + 1, 6), R(3), R(1), 2, 2)

\* where the cell-sized triangle is placed: cell (0,0), cell (1,1), and one
\* cell before the field along Z and along X
Offsets == {<<0, 0>>, <<3, 3>>, <<0, -3>>, <<-3, 0>>}
Inner == {1, 2}

InitInCell(f, offs, ys) ==
    \E o \in offs :
    \E ax \in Inner, az \in Inner, bx \in Inner, bz \in Inner,
       cx \in Inner, cz \in Inner :
    \E ay \in ys, by \in ys, cy \in ys :
        /\ (bx - ax) * (cz - az) # (cx - ax) * (bz - az)
        /\ InitCall(f, <<V(ax + o[1], ay, az + o[2]),
                      V(bx + o[1], by, bz + o[2]),
                      V(cx + o[1], cy, cz + o[2])>>,
                    <<<<0, 1, 2>>>>, <<NOT_WALKABLE>>, -1)

InitHeight == InitInCell(LowField, Offsets, 0..MaxY)
SpecHeight == InitHeight /\ [][NextRaster]_vars

InitTall == InitInCell(TallField, {<<0, 0>>}, (MAX_HEIGHT - 1)..(MAX_HEIGHT + 1))
SpecTall == InitTall /\ [][NextRaster]_vars

\* the cell whose open footprint holds all three vertices, if there is one
RefHomeCells(t, f) ==
    {c \in Cells(f) :
        \A i \in 1..3 :
            LET lowX == RAdd(f.min[1], RMul(R(c[1]), f.cs))
                lowZ == RAdd(f.min[3], RMul(R(c[2]), f.cs))
            IN  /\ RLt(lowX, t[i][1]) /\ RLt(t[i][1], RAdd(lowX, f.cs))
                /\ RLt(lowZ, t[i][3]) /\ RLt(t[i][3], RAdd(lowZ, f.cs))}

RefLowestY(t) == RMin(RMin(t[1][2], t[2][2]), t[3][2])
RefHighestY(t) == RMax(RMax(t[1][2], t[2][2]), t[3][2])
RefInVerticalRange(t, f) ==
    \A i \in 1..3 : RLe(f.min[2], t[i][2]) /\ RLe(t[i][2], f.max[2])
RefDisjoint(a, b) ==
    \E k \in 1..3 : RLt(a.max[k], b.min[k]) \/ RLt(b.max[k], a.min[k])

C7_DisjointIsNoOp ==
    RefDisjoint(TriAabb(TriangleOf(0)), [min |-> hf.min, max |-> hf.max])
        => /\ requests = <<>>
           /\ cells = EmptyCells(hf)
           /\ pc \in {"populate", "done"}
           /\ lastDiv = NoDiv
           /\ result \in {"none", "Ok"}
           /\ (pc = "done" => result = "Ok" /\ ti = 1)

\* a non-degenerate triangle one cell before the field along Z was rejected
C7_Witness ==
    /\ RefDisjoint(TriAabb(TriangleOf(0)), [min |-> hf.min, max |-> hf.max])
    /\ RefArea2(TriangleOf(0)) # R(0)
    /\ RLt(TriangleOf(0)[1][3], hf.min[3])
    /\ RefInVerticalRange(TriangleOf(0), hf)
    /\ pc = "done" /\ result = "Ok" /\ ti = 1

---------------------------------------------------------------------------
(* Mesh scenarios: populate_from_trimesh over several triangles, with an    *)
(* add_span that may fail                                                   *)

MaxTris == 3
MaxGoodInsertions == 2

\* flat triangles over WideField: one cell, two rows of one column, another
\* column, outside the field, and two columns of one row
MeshPool ==
    {<<V(0, 0, 0), V(1, 0, 0), V(0, 0, 1)>>,
     <<V(0, 0, 1), V(1, 0, 1), V(0, 0, 3)>>,
     <<V(3, 0, 0), V(3, 0, 1), V(2, 0, 1)>>,
     <<V(-1, 0, -1), V(-1, 0, -2), V(-2, 0, -1)>>,
     <<V(1, 0, 0), V(3, 0, 0), V(1, 0, 1)>>}

RECURSIVE Flatten(_)
Flatten(ts) == IF ts = <<>> THEN <<>> ELSE ts[1] \o Flatten(Tail(ts))

InitMesh ==
    \E n \in 1..MaxTris :
    \E ts \in [1..n -> MeshPool] :
    \E fa \in (-1)..MaxGoodInsertions :
        InitCall(WideField, Flatten(ts),
                 [k \in 1..n |-> <<3 * (k - 1), 3 * (k - 1) + 1, 3 * (k - 1) + 2>>],
                 [k \in 1..n |-> IF k % 2 = 0 THEN WALKABLE ELSE NOT_WALKABLE], fa)

SpecMesh == InitMesh /\ [][NextRaster]_vars

RECURSIVE RefInsertAll(_, _, _)
RefInsertAll(cs, reqs, n) ==
    IF n = 0 THEN cs
    ELSE AddSpan(RefInsertAll(cs, reqs, n - 1), reqs[n])

\* the requests add_span accepted: all of them, but the last one once an
\* insertion error was returned
RefAccepted == IF result = "SpanInsertionError" THEN Len(requests) - 1 ELSE Len(requests)

C6_State ==
    \* triangles are taken in index order, and none after the one being rasterized
    /\ \A i \in 1..Len(requests) : requests[i].tri <= ti
    /\ \A i, j \in 1..Len(requests) : i < j => requests[i].tri <= requests[j].tri
    \* every accepted span is in the heightfield, also after a failure
    /\ cells = RefInsertAll(EmptyCells(hf), requests, RefAccepted)
    \* the only failure is the first failing insertion, and it is the last request
    /\ result \in {"none", "Ok", "SpanInsertionError"}
    /\ result # "none" <=> pc = "done"
    /\ result = "SpanInsertionError"
           => /\ failAfter = 0
              /\ requests # <<>>
              /\ requests[Len(requests)].tri = ti
    \* Ok only after the last triangle, with no insertion having failed
    /\ result = "Ok" => ti = Len(indices)

C6_Step ==
    \* the loop index only moves to the next triangle, when the current one was
    \* rejected or its last row is behind
    /\ ti' # ti => /\ ti' = ti + 1
                   /\ pc = "populate" \/ (pc = "row" /\ z > z1)
    \* nothing happens after the return
    /\ pc = "done" => UNCHANGED vars
    \* a failing insertion ends the call in the same step
    /\ (pc = "col" /\ failAfter = 0 /\ Len(requests') > Len(requests))
           => (pc' = "done" /\ result' = "SpanInsertionError")
    \* span lists only grow
    /\ \A c \in Cells(hf) : Len(cells'[c]) >= Len(cells[c])

---------------------------------------------------------------------------
(* divide_poly on its own: convex polygons on a small grid, planes on the   *)
(* grid lines and between them                                              *)

MaxPolyVerts == 4
MaxDivCoord == 2
DivPoints == (0..MaxDivCoord) \X (0..MaxDivCoord)

RefCross2(o, p, q) == (p[1] - o[1]) * (q[2] - o[2]) - (q[1] - o[1]) * (p[2] - o[2])

\* strictly convex, in either orientation: every other vertex lies strictly on
\* one and the same side of every edge
RefConvex(ps) ==
    LET n == Len(ps)
        nxt(i) == IF i = n THEN 1 ELSE i + 1
        side(sgn) == \A i \in 1..n : \A k \in 1..n :
                        (k # i /\ k # nxt(i)) => sgn * RefCross2(ps[i], ps[nxt(i)], ps[k]) > 0
    IN  /\ \A i, j \in 1..n : i < j => ps[i] # ps[j]
        /\ n >= 3 => (side(1) \/ side(-1))

\* the polygon lies in the plane y = x + 2z
DivVertex(p) == V(p[1], p[1] + 2 * p[2], p[2])

\* buffers that hold whatever divide_poly can write for 12 input vertices
DivideCap == 2 * MaxDivideVerts

\* the vertex counts 3, 4, .., MaxPolyVerts, 1, 2 in this order
DivCount(m) == ((m + 1) % MaxPolyVerts) + 1

InitDivide ==
    \E m \in 1..MaxPolyVerts :
    \E n \in {DivCount(m)} :
    \E ps \in {q \in [1..n -> DivPoints] : RefConvex(q)} :
    \E k \in 0..(2 * MaxDivCoord), ax \in {AxisX, AxisZ} :
        /\ hf = UnitField
        /\ vertices = <<>> /\ indices = <<>>
        /\ areaTypes = <<>> /\ areaBefore = <<>>
        /\ threshold = R(0)
        /\ pc = "divide"
        /\ ti = 0
        /\ z = 0 /\ z1 = 0 /\ x = 0 /\ x1 = 0
        /\ inTri = [i \in 1..n |-> DivVertex(ps[i])]
        /\ inRow = <<>>
        /\ plane = [offset |-> Norm(k, 2), axis |-> ax]
        /\ lastDiv = NoDiv
        /\ cellPoly = NoCellPoly
        /\ requests = <<>>
        /\ cells = EmptyCells(UnitField)
        /\ failAfter = -1
        /\ result = "none"

\* one call divide_poly(in_verts, n, out_verts_1, .., out_verts_2, .., axis_offset, axis_dir)
DivideCall ==
    /\ pc = "divide"
    /\ lastDiv' = DividePoly(inTri, plane.offset, plane.axis, DivideCap)
    /\ result' = lastDiv'.status
    /\ pc' = "done"
    /\ UNCHANGED <<RasterFrame, ti, z, z1, x, x1, inTri, inRow, plane, cellPoly,
                   requests, cells, failAfter>>

NextDivide == DivideCall

SpecDivide == InitDivide /\ [][NextDivide]_vars

RefOnPlane(v) == v[plane.axis] = plane.offset
RefSideA(v) == RLt(v[plane.axis], plane.offset)
RefSideB(v) == RLt(plane.offset, v[plane.axis])
RefPred(i, n) == IF i = 1 THEN n ELSE i - 1
RefCountOk(n) == n = 0 \/ n >= 3

\* C5 as claimed: for 1..12 input vertices forming a convex polygon and any
\* plane, each output vertex count is 0 or at least 3.
C5_OutputsNeverOneOrTwo ==
    (pc = "done" /\ lastDiv.status = "Ok")
        => RefCountOk(Len(lastDiv.out1)) /\ RefCountOk(Len(lastDiv.out2))

\* C5 amended: for at least 3 input vertices, none of them exactly on the
\* dividing plane, each output vertex count is 0 or at least 3.
C5_OutputsWithoutPlaneVertices ==
    (/\ pc = "done"
     /\ lastDiv.status = "Ok"
     /\ Len(inTri) >= 3
     /\ \A i \in 1..Len(inTri) : ~RefOnPlane(inTri[i]))
        => RefCountOk(Len(lastDiv.out1)) /\ RefCountOk(Len(lastDiv.out2))

\* a quadrilateral cut through its interior, between grid lines
C5_Witness ==
    /\ pc = "done"
    /\ lastDiv.status = "Ok"
    /\ Len(inTri) = 4
    /\ \A i \in 1..Len(inTri) : ~RefOnPlane(inTri[i])
    /\ Len(lastDiv.out1) >= 3
    /\ Len(lastDiv.out2) >= 3

\* C9: every iteration pairs vertex i with its cyclic predecessor; so every
\* intersection point is where the edge from the predecessor to vertex i meets
\* the plane; and a triangle with two vertices strictly on side A and one
\* strictly on side B gets two distinct intersection points.
C9_PairsWithPredecessor ==
    pc = "done" /\ lastDiv.status = "Ok"
        => LET n == Len(inTri)
           IN  /\ \A k \in 1..Len(lastDiv.pairs) :
                      lastDiv.pairs[k] = <<k, RefPred(k, n)>>
               /\ \A k \in 1..Len(lastDiv.cross) :
                      LET a == lastDiv.cross[k][1]
                      IN  lastDiv.cross[k][3]
                              = RefCut(inTri[RefPred(a, n)], inTri[a],
                                       plane.axis, plane.offset)
               /\ (/\ n = 3
                   /\ Cardinality({i \in 1..3 : RefSideA(inTri[i])}) = 2
                   /\ Cardinality({i \in 1..3 : RefSideB(inTri[i])}) = 1)
                      => /\ Len(lastDiv.cross) = 2
                         /\ lastDiv.cross[1][3] # lastDiv.cross[2][3]

---------------------------------------------------------------------------
(* mark_walkable_triangles                                                 *)

VCross(p, q) ==
    <<RSub(RMul(p[2], q[3]), RMul(p[3], q[2])),
      RSub(RMul(p[3], q[1]), RMul(p[1], q[3])),
      RSub(RMul(p[1], q[2]), RMul(p[2], q[1]))>>

VLenSq(p) == RAdd(RAdd(RMul(p[1], p[1]), RMul(p[2], p[2])), RMul(p[3], p[3]))

\* TriangleIndices::normal before the normalization: ab.cross(ac)
NormalCross(i) ==
    LET t == TriangleOf(i)
    IN  VCross(VSub(t[2], t[1]), VSub(t[3], t[1]))

\* normal.y >= threshold_cos
NormalYAtLeast(c, tc) ==
    IF VLenSq(c) = R(0)
    THEN RLe(tc, R(0))
    ELSE IF RLt(tc, R(0))
         THEN RLe(R(0), c[2]) \/ RLe(RMul(c[2], c[2]), RMul(RMul(tc, tc), VLenSq(c)))
         ELSE RLe(R(0), c[2]) /\ RLe(RMul(RMul(tc, tc), VLenSq(c)), RMul(c[2], c[2]))

\* normal.y > threshold_cos, where normal = c.normalize_or_zero(): the zero
\* vector for a zero-length c, and c / |c| otherwise. With c.y / |c| compared
\* to tc through the squares, by the signs of both sides.
NormalYExceeds(c, tc) ==
    IF VLenSq(c) = R(0)
    THEN RLt(tc, R(0))
    ELSE IF RLt(tc, R(0))
         THEN RLe(R(0), c[2]) \/ RLt(RMul(c[2], c[2]), RMul(RMul(tc, tc), VLenSq(c)))
         ELSE RLt(R(0), c[2]) /\ RLt(RMul(RMul(tc, tc), VLenSq(c)), RMul(c[2], c[2]))

\* one iteration of the loop of mark_walkable_triangles
MarkStep ==
    /\ pc = "mark"
    /\ ti < Len(indices)
    /\ areaTypes' = IF NormalYExceeds(NormalCross(ti), threshold)
                    THEN [areaTypes EXCEPT ![ti + 1] = WALKABLE]
                    ELSE areaTypes
    /\ ti' = ti + 1
    /\ UNCHANGED <<hf, vertices, indices, areaBefore, threshold, pc, z, z1, x, x1,
                   inTri, inRow, plane, lastDiv, cellPoly, requests, cells,
                   failAfter, result>>

\* the loop is exhausted
MarkReturn ==
    /\ pc = "mark"
    /\ ti = Len(indices)
    /\ pc' = "done"
    /\ UNCHANGED <<hf, vertices, indices, areaTypes, areaBefore, threshold, ti, z, z1,
                   x, x1, inTri, inRow, plane, lastDiv, cellPoly, requests, cells,
                   failAfter, result>>

NextWalk == MarkStep \/ MarkReturn

MaxWalkTris == 2

\* facing up, facing down, vertical, sloped by 45 degrees, collinear, and with
\* a repeated vertex
WalkPool ==
    {<<V(0, 0, 0), V(0, 0, 1), V(1, 0, 0)>>,
     <<V(0, 0, 0), V(1, 0, 0), V(0, 0, 1)>>,
     <<V(0, 0, 0), V(1, 0, 0), V(0, 1, 0)>>,
     <<V(0, 0, 0), V(0, 0, 1), V(1, 1, 0)>>,
     <<V(0, 0, 0), V(1, 1, 0), V(2, 2, 0)>>,
     <<V(1, 0, 1), V(1, 0, 1), V(0, 1, 0)>>}

\* threshold_cos = cos(threshold_rad): the quarters from -1 to 1
ThresholdCos == {Norm(k, 4) : k \in (-4)..4}

InitWalk ==
    \E n \in 1..MaxWalkTris :
    \E ts \in [1..n -> WalkPool], as \in [1..n -> {NOT_WALKABLE, WALKABLE}] :
    \E tc \in ThresholdCos :
        /\ hf = UnitField
        /\ vertices = Flatten(ts)
        /\ indices = [k \in 1..n |-> <<3 * (k - 1), 3 * (k - 1) + 1, 3 * (k - 1) + 2>>]
        /\ areaTypes = as
        /\ areaBefore = as
        /\ threshold = tc
        /\ pc = "mark"
        /\ ti = 0
        /\ z = 0 /\ z1 = 0 /\ x = 0 /\ x1 = 0
        /\ inTri = <<>> /\ inRow = <<>>
        /\ plane = [offset |-> R(0), axis |-> AxisZ]
        /\ lastDiv = NoDiv
        /\ cellPoly = NoCellPoly
        /\ requests = <<>>
        /\ cells = EmptyCells(UnitField)
        /\ failAfter = -1
        /\ result = "none"

SpecWalk == InitWalk /\ [][NextWalk]_vars

RefDegenerate(i) == VLenSq(NormalCross(i)) = R(0)

\* C8 as claimed: for every threshold, the attribute of a degenerate triangle
\* is after the pass what it was before.
C8_DegenerateNeverPromoted ==
    \A i \in 0..(Len(indices) - 1) :
        RefDegenerate(i) => areaTypes[i + 1] = areaBefore[i + 1]

\* C8 amended: for every threshold whose cosine is not negative, the attribute
\* of a degenerate triangle is after the pass what it was before.
C8_DegenerateKeptUpToRightAngle ==
    RLe(R(0), threshold)
        => \A i \in 0..(Len(indices) - 1) :
               RefDegenerate(i) => areaTypes[i + 1] = areaBefore[i + 1]

\* the pass went over a degenerate, not walkable triangle with cos = 0, and
\* promoted the triangle facing up beside it
C8_Witness ==
    /\ pc = "done"
    /\ threshold = R(0)
    /\ Len(indices) = 2
    /\ RefDegenerate(0) /\ areaBefore[1] = NOT_WALKABLE /\ areaTypes[1] = NOT_WALKABLE
    /\ ~RefDegenerate(1) /\ areaBefore[2] = NOT_WALKABLE /\ areaTypes[2] = WALKABLE

=============================================================================
